---------------------------- MODULE Spec2Model ----------------------------
(* A model of rab, a single-threaded HTTP load generator:                 *)
(*   src/src/benchmarking.rs  the event loop and the per-event handler     *)
(*   src/src/connection.rs    Connection, its state machine, reconnect     *)
(*   src/src/ctx.rs           the counters and the stop conditions         *)
(*   src/src/http.rs          the status-line / Server-header parser       *)
(*   src/src/reporting.rs     the Reporter's shadow state machine          *)
(* Bytes are numbers 0..255, byte strings are sequences of them.           *)
EXTENDS Integers, Sequences, FiniteSets, TLC

\* ------------------------------------------------------------------ bounds
\* The pool sizes and request targets explored by the general specification.
MaxConcurrency == 2
MaxRequests == 2

\* ------------------------------------------------------------ byte strings
\* "HTTP/1.1 200 OK\r\n\r\n"
HeadOk == <<72, 84, 84, 80, 47, 49, 46, 49, 32, 50, 48, 48, 32, 79, 75, 13, 10, 13, 10>>
\* "hello, "
Hello == <<104, 101, 108, 108, 111, 44, 32>>
\* "world"
World == <<119, 111, 114, 108, 100>>
\* "HTTP/1.1 200 OK\r\nServer: gws\r\n\r\n"
Seg200 == <<72, 84, 84, 80, 47, 49, 46, 49, 32, 50, 48, 48, 32, 79, 75, 13, 10, 83, 101, 114, 118, 101, 114, 58, 32, 103, 119, 115, 13, 10, 13, 10>>
\* "HTTP/1.1 404 NF\r\n"
Seg404 == <<72, 84, 84, 80, 47, 49, 46, 49, 32, 52, 48, 52, 32, 78, 70, 13, 10>>
\* "Server: abc\r\n\r\n"
SegSrv == <<83, 101, 114, 118, 101, 114, 58, 32, 97, 98, 99, 13, 10, 13, 10>>
\* "HTTP/" (shorter than the offset of the status code)
SegShort == <<72, 84, 84, 80, 47>>
\* "HTTP/1.1 1:0 OK\r\nX-Pad: 1234\r\n\r\n" (the status field is not three digits)
SegBad == <<72, 84, 84, 80, 47, 49, 46, 49, 32, 49, 58, 48, 32, 79, 75, 13, 10, 88, 45, 80, 97, 100, 58, 32, 49, 50, 51, 52, 13, 10, 13, 10>>
\* "HTTP/1.1 2 0 OK\r\nX-Pad: 1234\r\n\r\n" (a status byte below '0')
SegLow == <<72, 84, 84, 80, 47, 49, 46, 49, 32, 50, 32, 48, 32, 79, 75, 13, 10, 88, 45, 80, 97, 100, 58, 32, 49, 50, 51, 52, 13, 10, 13, 10>>
\* "HTTP/1.1 200 OK\r\nServer:\r\n\r\n" (a Server header with nothing after the colon)
SegBare == <<72, 84, 84, 80, 47, 49, 46, 49, 32, 50, 48, 48, 32, 79, 75, 13, 10, 83, 101, 114, 118, 101, 114, 58, 13, 10, 13, 10>>
\* "Server:"
ServerPrefix == <<83, 101, 114, 118, 101, 114, 58>>
\* "GET / HTTP/1.0\r\nHost: h\r\nAccept: */*\r\n\r\n" as create_request formats it
Payload == <<71, 69, 84, 32, 47, 32, 72, 84, 84, 80, 47, 49, 46, 48, 13, 10, 72, 111, 115, 116, 58, 32, 104, 13, 10, 65, 99, 99, 101, 112, 116, 58, 32, 42, 47, 42, 13, 10, 13, 10>>

\* Option<T>
None == [some |-> FALSE]
Some(v) == [some |-> TRUE, v |-> v]

\* --------------------------------------------------------------- http.rs
\* &s[from..] with 0-based `from`; callers check from <= Len(s) as the slice
\* index check does.
SliceFrom(s, from) == SubSeq(s, from + 1, Len(s))

StartsWith(s, p) == Len(s) >= Len(p) /\ SubSeq(s, 1, Len(p)) = p

\* str::split("\r\n"): the pieces between the CRLF separators, in order.
RECURSIVE SplitCrlf(_, _)
SplitCrlf(s, cur) ==
    IF s = <<>> THEN <<cur>>
    ELSE IF Len(s) >= 2 /\ s[1] = 13 /\ s[2] = 10
         THEN <<cur>> \o SplitCrlf(SliceFrom(s, 2), <<>>)
         ELSE SplitCrlf(Tail(s), Append(cur, Head(s)))

\* parse_server: the first line with the prefix "Server:" gives line[8..]; a
\* line shorter than 8 bytes makes that slice panic.
RECURSIVE FindServer(_)
FindServer(lines) ==
    IF lines = <<>> THEN [tag |-> "None"]
    ELSE IF StartsWith(Head(lines), ServerPrefix)
         THEN IF Len(Head(lines)) < 8
              THEN [tag |-> "Panic"]
              ELSE [tag |-> "Some", v |-> SliceFrom(Head(lines), 8)]
         ELSE FindServer(Tail(lines))

parse_server(resp) == FindServer(SplitCrlf(resp, <<>>))

\* ascii_num: (c - 48) as u16 on a u8. Below '0' the subtraction overflows:
\* a panic with overflow checks on, a wrap modulo 2^8 with them off.
ascii_num(c, overflow_checked) ==
    IF c >= 48 THEN [tag |-> "Ok", v |-> c - 48]
    ELSE IF overflow_checked THEN [tag |-> "Panic"]
    ELSE [tag |-> "Ok", v |-> (c - 48) % 256]

\* Response { status, server }
parse_result(status, server) ==
    IF server.tag = "Panic"
    THEN [tag |-> "Panic", msg |-> "panic: byte index 8 is out of bounds"]
    ELSE [tag |-> "Ok", status |-> status,
          server |-> IF server.tag = "Some" THEN Some(server.v) ELSE None]

\* let status = ascii_num(a) * 100 + ascii_num(b) * 10 + ascii_num(c), in u16
parse_status(resp, status_only, a, b, c) ==
    IF a.tag = "Panic" \/ b.tag = "Panic" \/ c.tag = "Panic"
    THEN [tag |-> "Panic", msg |-> "panic: attempt to subtract with overflow"]
    ELSE parse_result((a.v * 100 + b.v * 10 + c.v) % 65536,
                      IF status_only THEN [tag |-> "None"] ELSE parse_server(resp))

\* if let [a, b, c] = resp[9..12] { .. } else { Err(..) }
parse_field(resp, status_only, field, overflow_checked) ==
    IF Len(field) # 3 THEN [tag |-> "Err"]
    ELSE parse_status(resp, status_only,
                      ascii_num(field[1], overflow_checked),
                      ascii_num(field[2], overflow_checked),
                      ascii_num(field[3], overflow_checked))

\* Response::parse. resp[9..12] panics when resp has fewer than 12 bytes; the
\* slice pattern [a, b, c] then always matches, so Err is never produced.
parse(resp, status_only, overflow_checked) ==
    IF Len(resp) < 12
    THEN [tag |-> "Panic", msg |-> "panic: range end index 12 out of range"]
    ELSE parse_field(resp, status_only, SubSeq(resp, 10, 12), overflow_checked)


\* No call of Response::parse on its own.
NoParse == [resp |-> <<>>, lines |-> <<>>, status_only |-> FALSE,
            overflow_checked |-> FALSE, result |-> None]

\* No call of read_from_stream on its own.
NoRead == [pc |-> "idle", bytes_read |-> 0, len |-> 0, slice |-> 0, done |-> FALSE,
           avail |-> 0, closed |-> FALSE, last |-> "none"]

\* ---------------------------------------------------------------- state
VARIABLES
    ctx,             \* Ctx: the counters, server_name, doclen, max_requests
    connections,     \* HashMap<Token, Connection>
    reporter,        \* Reporter: done and the per-token ConnectionStats
    sock,            \* per token, the peer's side of the connection's current socket
    registry,        \* the sockets registered with the Poll, as <<token, stream>>
    pc,              \* where benchmark() is: "loop", "events" or "stopped"
    events,          \* the events of the current poll batch not yet dispatched
    outcome,         \* how benchmark() ended: "running", "ok", "timelimit", "err" or a panic
    log,             \* the state changes notified during the last dispatch
    clock,           \* benchmark's timelimit and time_left, and the time elapsed since start
    stats,           \* the samples Reporter::print works on, and what it has printed
    parsing,         \* a call of Response::parse on its own: the input and the result
    reading          \* a call of read_from_stream on its own: its locals and the socket

vars == <<ctx, connections, reporter, sock, registry, pc, events, outcome, log, clock,
          stats, parsing, reading>>

Tokens == DOMAIN connections

\* ---------------------------------------------------------------- ctx.rs
\* benchmarking.rs imports the Ctx of connection.rs, lines 14-82, which has the
\* same counters and the same methods, word for word, without doclen.
CtxNew(max_requests, concurrency) ==
    [token |-> 0, sent_requests |-> 0, successful_responses |-> 0,
     unsuccessful_responses |-> 0, failed_responses |-> 0,
     server_name |-> None, doclen |-> None,
     max_requests |-> max_requests, concurrency |-> concurrency]

total_responses(c) ==
    c.failed_responses + c.successful_responses + c.unsuccessful_responses

\* An expect_more_responses that gives up one response early.
expect_more_responses_one_short(c) == c.max_requests > total_responses(c) + 1

expect_more_responses(c) == total_responses(c) < c.max_requests

\* A send_more that allows one request too many.
send_more_off_by_one(c) == c.max_requests >= c.sent_requests

send_more(c) == c.max_requests > c.sent_requests

successful_response(c) == [c EXCEPT !.successful_responses = @ + 1]
unsuccessful_response(c) == [c EXCEPT !.unsuccessful_responses = @ + 1]
failed_response(c) == [c EXCEPT !.failed_responses = @ + 1]

\* ----------------------------------------------------------- reporting.rs
ConnectionStats == [state |-> "Unconnected", times |-> 0, ctimes |-> 0]

ReporterNew == [done |-> 0, connections |-> <<>>]

get_or_insert(rep, token) ==
    IF token \in DOMAIN rep.connections THEN rep
    ELSE [rep EXCEPT !.connections =
             [t \in DOMAIN rep.connections \cup {token} |->
                 IF t = token THEN ConnectionStats ELSE rep.connections[t]]]

\* A match whose arm for (Read, UNCONNECTED) pushes the response time and
\* leaves done as it is.
state_transition_uncounted(rep, token, from, new_state) ==
    IF from = "Connected" /\ new_state = "READ"
    THEN [rep |-> [rep EXCEPT !.connections[token].state = "Read"], panic |-> FALSE]
    ELSE IF from = "Read" /\ new_state = "UNCONNECTED"
    THEN [rep |-> [rep EXCEPT !.connections[token].times = @ + 1,
                              !.connections[token].state = "Unconnected"],
          panic |-> FALSE]
    ELSE IF from = "Connecting" /\ new_state = "CONNECTED"
    THEN [rep |-> [rep EXCEPT !.connections[token].ctimes = @ + 1,
                              !.connections[token].state = "Connected"],
          panic |-> FALSE]
    ELSE IF new_state = "CONNECTING"
    THEN [rep |-> [rep EXCEPT !.connections[token].state = "Connecting"], panic |-> FALSE]
    ELSE [rep |-> rep, panic |-> TRUE]

\* A match whose arm for CONNECTING records the state before the first response
\* is done and returns without recording it afterwards.
state_transition_unrecorded(rep, token, from, new_state) ==
    IF from = "Connected" /\ new_state = "READ"
    THEN [rep |-> [rep EXCEPT !.connections[token].state = "Read"], panic |-> FALSE]
    ELSE IF from = "Read" /\ new_state = "UNCONNECTED"
    THEN [rep |-> [rep EXCEPT !.connections[token].times = @ + 1,
                              !.connections[token].state = "Unconnected",
                              !.done = @ + 1],
          panic |-> FALSE]
    ELSE IF from = "Connecting" /\ new_state = "CONNECTED"
    THEN [rep |-> [rep EXCEPT !.connections[token].ctimes = @ + 1,
                              !.connections[token].state = "Connected"],
          panic |-> FALSE]
    ELSE IF new_state = "CONNECTING" /\ from = "Unconnected" /\ rep.done = 0
    THEN [rep |-> [rep EXCEPT !.connections[token].state = "Connecting"], panic |-> FALSE]
    ELSE IF new_state = "CONNECTING"
    THEN [rep |-> rep, panic |-> FALSE]
    ELSE [rep |-> rep, panic |-> TRUE]

\* The match of connection_state_changed, arm by arm, on the stats entry that
\* get_or_insert returned. times and ctimes hold the number of samples pushed;
\* the Instants are not kept.
state_transition(rep, token, from, new_state) ==
    IF from = "Connected" /\ new_state = "READ"
    THEN [rep |-> [rep EXCEPT !.connections[token].state = "Read"], panic |-> FALSE]
    ELSE IF from = "Read" /\ new_state = "UNCONNECTED"
    THEN [rep |-> [rep EXCEPT !.connections[token].times = @ + 1,
                              !.connections[token].state = "Unconnected",
                              !.done = @ + 1],
          panic |-> FALSE]
    ELSE IF from = "Connecting" /\ new_state = "CONNECTED"
    THEN [rep |-> [rep EXCEPT !.connections[token].ctimes = @ + 1,
                              !.connections[token].state = "Connected"],
          panic |-> FALSE]
    ELSE IF new_state = "CONNECTING"
    THEN [rep |-> [rep EXCEPT !.connections[token].state = "Connecting"], panic |-> FALSE]
    ELSE [rep |-> rep, panic |-> TRUE]

stats_transition(rep, token, new_state) ==
    state_transition(rep, token, rep.connections[token].state, new_state)

connection_state_changed(rep, token, new_state) ==
    stats_transition(get_or_insert(rep, token), token, new_state)

\* print_response_times: all_times collects the response times of every
\* connection; the percentile table is printed if all_times.len() > 1.
RECURSIVE all_times_of(_, _)
all_times_of(rep, tokens) ==
    IF tokens = {} THEN 0
    ELSE LET t == CHOOSE u \in tokens : TRUE
         IN rep.connections[t].times + all_times_of(rep, tokens \ {t})

all_times(rep) == all_times_of(rep, DOMAIN rep.connections)

prints_percentiles(rep) == all_times(rep) > 1

\* ------------------------------------------------------------ the sockets
\* The peer's side of one TcpStream: st is "syn" while the connect is in
\* flight, "estab" once accepted, "failed" after a refusal or a reset. rx holds
\* the bytes delivered and not read yet, todo the segments of its response the
\* peer has still to write, started whether it has begun a response, fin
\* whether it has closed, req whether the client's request has been written.
\* The sockets are registered edge-triggered: edge is set by every change of
\* readiness (connect done, bytes, close, reset) and cleared by the poll that
\* reports it.
FreshSock ==
    [st |-> "syn", rx |-> <<>>, todo |-> <<>>, started |-> FALSE, fin |-> FALSE,
     req |-> FALSE, edge |-> FALSE]

\* The responses a peer may send, each as the segments it writes.
Responses ==
    << <<Seg200>>,              \* 1: a 200 with a Server header, in one write
       <<Seg404, SegSrv>>,      \* 2: a 404 whose Server header is in the second write
       <<SegShort>>,            \* 3: five bytes
       <<SegBad>>,              \* 4: a status field that is not three digits
       <<SegLow>>,              \* 5: a status byte below '0'
       <<HeadOk, Hello, World>>,\* 6: headers, then "hello, " and "world"
       <<Hello, World>>,        \* 7: "hello, " and "world" alone
       <<SegBare>> >>           \* 8: a 200 whose Server header is bare

\* The bytes delivered to the socket and not read yet.
Pending(s) == s.rx

CanWrite(s) == s.st \in {"estab", "failed"}
CanRead(s) == s.st = "failed" \/ (s.st = "estab" /\ (s.fin \/ Pending(s) # <<>>))

\* ---------------------------------------------------------- connection.rs
\* The handler of one event works on the record
\*   w = [ctx, conn, rep, sock, registry, log, res]
\* of what it can touch: the Ctx, the event's Connection, the Reporter, the
\* connection's socket and the Poll's registry. res is "ok" while the handler
\* runs, "err" once a ? has returned an io::Error, and the panic message once
\* something has panicked; every later step is then skipped.
Ok(w) == w.res = "ok"

\* Connection::set_state: assign, then notify the Reporter (r is what
\* connection_state_changed made of it).
notified(w, new_state, r) ==
    [w EXCEPT !.conn.state = new_state,
              !.rep = r.rep,
              !.log = Append(@, new_state),
              !.res = IF r.panic THEN "panic: Invalid state transition" ELSE "ok"]

set_state(w, new_state) ==
    notified(w, new_state, connection_state_changed(w.rep, w.conn.token, new_state))

\* Ctx::register on the connection's current stream. io is the set of calls
\* that fail.
register(w, io) ==
    IF ~Ok(w) THEN w
    ELSE IF "register" \in io THEN [w EXCEPT !.res = "err"]
    ELSE [w EXCEPT !.registry = @ \cup {<<w.conn.token, w.conn.stream>>}]

\* A disconnect that shuts the socket down without deregistering it.
disconnect_registered(w, io) ==
    IF "deregister" \in io \/ "shutdown" \in io THEN [w EXCEPT !.res = "err"]
    ELSE set_state(w, "UNCONNECTED")

\* Connection::disconnect: deregister?, shutdown?, set_state(UNCONNECTED).
disconnect(w, io) ==
    IF "deregister" \in io THEN [w EXCEPT !.res = "err"]
    ELSE IF "shutdown" \in io
         THEN [w EXCEPT !.registry = @ \ {<<w.conn.token, w.conn.stream>>}, !.res = "err"]
         ELSE set_state([w EXCEPT !.registry = @ \ {<<w.conn.token, w.conn.stream>>}],
                        "UNCONNECTED")

\* The rest of Connection::reset, after self.disconnect(ctx)?: connect?, the
\* new stream, set_state(CONNECTING), register.
reconnect(w, io) ==
    IF ~Ok(w) THEN w
    ELSE IF "connect" \in io THEN [w EXCEPT !.res = "err"]
    ELSE register(set_state([w EXCEPT !.conn.stream = @ + 1, !.sock = FreshSock],
                            "CONNECTING"),
                  io)

reset(w, io) == reconnect(disconnect(w, io), io)

finish_request(w) == [w EXCEPT !.conn.reading_response = FALSE]

bytes_read(w, nbytes) ==
    IF ~Ok(w) THEN w
    ELSE [w EXCEPT !.conn.reading_response = TRUE, !.conn.bytes_received = @ + nbytes]

is_reading_response(conn) == conn.reading_response

\* The Connection struct that Connection::new builds.
NewConnection(token) ==
    [token |-> token, stream |-> 0, state |-> "UNCONNECTED",
     bytes_sent |-> 0, bytes_received |-> 0, sent_requests |-> 0,
     reading_response |-> FALSE]

\* Connection::new for the next token: connect, next_token, register,
\* set_state(CONNECTING). Returns the Ctx, the Connection and the Reporter.
ConnectionNew(c, rep) ==
    [ctx |-> [c EXCEPT !.token = @ + 1],
     conn |-> [NewConnection(c.token) EXCEPT !.state = "CONNECTING"],
     rep |-> connection_state_changed(rep, c.token, "CONNECTING").rep]

\* -------------------------------------------------------- benchmarking.rs
\* The document length the first response sets. No code under src/ assigns
\* Ctx.doclen; this follows the specification: the byte length of the first
\* read of the first response.
first_doclen(c, received_data) ==
    IF c.doclen.some THEN c.doclen ELSE Some(Len(received_data))

\* A store_server_name that stores the server name of every response.
store_server_name_always(c, parse_server_name, resp, received_data) ==
    [c EXCEPT !.server_name = Some(IF resp.server.some THEN resp.server.v ELSE <<>>)]

\* if parse_server_name { ctx.server_name = Some(resp.server.unwrap_or_default()) }
store_server_name(c, parse_server_name, resp, received_data) ==
    IF parse_server_name
    THEN [c EXCEPT !.server_name = Some(IF resp.server.some THEN resp.server.v ELSE <<>>),
                   !.doclen = first_doclen(c, received_data)]
    ELSE c

\* The branches of record_response on the result of Response::parse.
classify(w, received_data, parse_server_name, resp) ==
    IF resp.tag = "Panic" THEN [w EXCEPT !.res = resp.msg]
    ELSE IF resp.tag = "Ok"
    THEN IF resp.status >= 200 /\ resp.status < 300
         THEN [w EXCEPT !.ctx = successful_response(
                   store_server_name(w.ctx, parse_server_name, resp, received_data))]
         ELSE [w EXCEPT !.ctx = unsuccessful_response(
                   store_server_name(w.ctx, parse_server_name, resp, received_data))]
    ELSE [w EXCEPT !.ctx = failed_response(w.ctx)]

\* A record_response that classifies every chunk it is given.
record_response_every_chunk(w, received_data, overflow_checked) ==
    classify(w, received_data, ~w.ctx.server_name.some,
             parse(received_data, w.ctx.server_name.some, overflow_checked))

record_response(w, received_data, overflow_checked) ==
    IF ~is_reading_response(w.conn)
    THEN classify(w, received_data, ~w.ctx.server_name.some,
                  parse(received_data, w.ctx.server_name.some, overflow_checked))
    ELSE w

\* write_all fails on a socket whose connect was refused or that was reset.
write_request(w) ==
    IF w.sock.st # "estab" THEN [w EXCEPT !.res = "err"]
    ELSE set_state([w EXCEPT !.sock.req = TRUE,
                             !.ctx.sent_requests = @ + 1,
                             !.conn.sent_requests = @ + 1,
                             !.conn.bytes_sent = @ + Len(Payload)],
                   "READ")

\* read_from_stream drains the socket: every byte delivered so far is read
\* (Interrupted is retried in place); then Ok(0) if the peer has closed, an
\* error if the socket has failed or is not connected, WouldBlock otherwise.
read_from_stream(s) ==
    [done |-> s.st = "estab" /\ s.fin,
     buf |-> Pending(s),
     sock |-> [s EXCEPT !.rx = <<>>]]

\* if event.is_writable() && conn.state == CONNECTING { conn.set_state(CONNECTED) }
on_writable(w, event) ==
    IF event.writable /\ w.conn.state = "CONNECTING" THEN set_state(w, "CONNECTED") ELSE w

\* A handler that leaves the request to the next writable event when it has
\* just made the connection CONNECTED.
on_send_next_event(w, event) ==
    IF Ok(w) /\ event.writable /\ send_more(w.ctx) /\ w.conn.state = "CONNECTED" /\ w.log = <<>>
    THEN write_request(w) ELSE w

\* if event.is_writable() && ctx.send_more() && conn.state == CONNECTED { write_request()? }
on_send(w, event) ==
    IF Ok(w) /\ event.writable /\ send_more(w.ctx) /\ w.conn.state = "CONNECTED"
    THEN write_request(w) ELSE w

\* if bytes_read != 0 { record_response(..); conn.bytes_read(bytes_read) }
on_bytes(w, buf, overflow_checked) ==
    IF Len(buf) # 0 THEN bytes_read(record_response(w, buf, overflow_checked), Len(buf)) ELSE w

\* if done { conn.finish_request(); conn.reset(ctx)? }
on_done(w, done, io) ==
    IF Ok(w) /\ done THEN reset(finish_request(w), io) ELSE w

\* if event.is_readable() { let (done, bytes_read) = read_from_stream(..); .. }
after_read(w, rd, io, overflow_checked) ==
    on_done(on_bytes([w EXCEPT !.sock = rd.sock], rd.buf, overflow_checked), rd.done, io)

on_readable(w, event, io, overflow_checked) ==
    IF Ok(w) /\ event.readable
    THEN after_read(w, read_from_stream(w.sock), io, overflow_checked)
    ELSE w

handle_connection_event(w, event, io, overflow_checked) ==
    on_readable(on_send(on_writable(w, event), event), event, io, overflow_checked)

\* ------------------------------------------------------- the pool and Init
\* The pool as its owner fills it: Connection::new, concurrency times.
RECURSIVE NewPool(_, _, _)
AddConnection(p, r, n) ==
    NewPool([ctx |-> r.ctx, rep |-> r.rep, conns |-> p.conns \cup {r.conn}], r, n)

NewPool(p, r0, n) ==
    IF n = 0 THEN p ELSE AddConnection(p, ConnectionNew(p.ctx, p.rep), n - 1)

InitFrom(p) ==
    /\ ctx = p.ctx
    /\ connections = [t \in {c.token : c \in p.conns} |-> CHOOSE c \in p.conns : c.token = t]
    /\ reporter = p.rep
    /\ sock = [t \in {c.token : c \in p.conns} |-> FreshSock]
    /\ registry = {<<c.token, c.stream>> : c \in p.conns}
    /\ pc = "loop"
    /\ events = <<>>
    /\ outcome = "running"
    /\ log = <<>>

\* Nothing is printed while benchmark runs.
NoReport == [samples |-> <<>>, phase |-> "running", connection_times |-> None,
             response_times |-> None]

\* let start = Instant::now(); let mut time_left = timelimit;
\* Time is counted in ticks since start.
\* polled is the time at which the pending poll was called.
ClockNew(timelimit) ==
    [timelimit |-> timelimit, elapsed |-> 0, time_left |-> timelimit, polled |-> 0]

Pool(concurrency, max_requests) ==
    NewPool([ctx |-> CtxNew(max_requests, concurrency), rep |-> ReporterNew, conns |-> {}],
            <<>>, concurrency)

\* The pool, with a time limit that the specification does not follow tick by
\* tick: its polls may time out, and its deadline may pass, at any moment.
InitWith(concurrency, max_requests) ==
    /\ clock = ClockNew(0)
    /\ stats = NoReport
    /\ parsing = NoParse
    /\ reading = NoRead
    /\ InitFrom(Pool(concurrency, max_requests))

\* Any pool the command line accepts: concurrency <= requests.
Init ==
    \E concurrency \in 1..MaxConcurrency, max_requests \in 1..MaxRequests :
        /\ concurrency <= max_requests
        /\ InitWith(concurrency, max_requests)

\* ------------------------------------------------------------- benchmark()
\* The event a poll returns for token t carries the readiness its socket has
\* at that moment.
EventOf(t) == [token |-> t, readable |-> CanRead(sock[t]), writable |-> CanWrite(sock[t])]

Ready(t) == <<t, connections[t].stream>> \in registry /\ sock[t].edge

\* One poll returns the events of all the ready tokens (fewer than the 128 its
\* Events holds), in any order.
Batches ==
    LET ready == {t \in Tokens : Ready(t)}
    IN  {[i \in DOMAIN ts |-> EventOf(ts[i])] :
            ts \in {b \in [1..Cardinality(ready) -> ready] :
                       \A i, j \in DOMAIN b : i # j => b[i] # b[j]}}

\* while ctx.expect_more_responses() { ctx.poll(..)?; ...
\* The poll blocks until a socket is ready; with a finite time limit it may
\* also time out and return no event.
Poll(may_time_out) ==
    /\ pc = "loop" /\ expect_more_responses(ctx)
    /\ \E b \in Batches :
          /\ b # <<>> \/ may_time_out
          /\ events' = b
    /\ sock' = [t \in Tokens |-> IF Ready(t) THEN [sock[t] EXCEPT !.edge = FALSE] ELSE sock[t]]
    /\ pc' = "events"
    /\ log' = <<>>
    /\ UNCHANGED <<reading, parsing, stats, clock, ctx, connections, reporter, registry, outcome>>

\* The while condition is false: Ok(()).
Exit ==
    /\ pc = "loop" /\ ~expect_more_responses(ctx)
    /\ pc' = "stopped" /\ outcome' = "ok"
    /\ UNCHANGED <<reading, parsing, stats, clock, ctx, connections, reporter, sock, registry, events, log>>

\* Whether the handler of e reaches Connection::reset, the only place where the
\* failures of IO can strike, and whether it parses a status byte below '0',
\* the only place where the overflow checks matter.
Resets(e, s) == e.readable /\ read_from_stream(s).done

Overflows(e, s) ==
    /\ e.readable /\ Len(Pending(s)) >= 12
    /\ \E i \in 10..12 : Pending(s)[i] < 48

\* for event in events.iter(): handle_connection_event(event, ctx, connection)?
\* IO is the set of sets of calls that may fail during this dispatch, OC the
\* settings of the build's overflow checks (on: debug, off: release).
Handled(t, w) ==
    /\ ctx' = w.ctx
    /\ connections' = [connections EXCEPT ![t] = w.conn]
    /\ reporter' = w.rep
    /\ sock' = [sock EXCEPT ![t] = w.sock]
    /\ registry' = w.registry
    /\ log' = w.log
    /\ events' = Tail(events)
    /\ IF Ok(w) THEN pc' = "events" /\ outcome' = outcome
       ELSE pc' = "stopped" /\ outcome' = w.res

\* What the handler of token t's event works on.
HandlerArgs(t) ==
    [ctx |-> ctx, conn |-> connections[t], rep |-> reporter, sock |-> sock[t],
     registry |-> registry, log |-> <<>>, res |-> "ok"]

DispatchEvent(e, IO, OC) ==
    \E io \in (IF Resets(e, sock[e.token]) THEN IO ELSE {{}}),
       oc \in (IF Overflows(e, sock[e.token]) THEN OC ELSE {TRUE}) :
        Handled(e.token, handle_connection_event(HandlerArgs(e.token), e, io, oc))

Dispatch(IO, OC) ==
    /\ pc = "events" /\ events # <<>>
    /\ DispatchEvent(Head(events), IO, OC)
    /\ UNCHANGED <<reading, parsing, stats, clock>>

\* After the batch: elapsed <= timelimit, so the loop goes on.
NextIteration ==
    /\ pc = "events" /\ events = <<>>
    /\ pc' = "loop"
    /\ UNCHANGED <<reading, parsing, stats, clock, ctx, connections, reporter, sock, registry, events, outcome, log>>

\* After the batch: elapsed > timelimit, "Timelimit exceeded", break, Ok(()).
TimelimitExceeded ==
    /\ pc = "events" /\ events = <<>>
    /\ pc' = "stopped" /\ outcome' = "timelimit"
    /\ UNCHANGED <<reading, parsing, stats, clock, ctx, connections, reporter, sock, registry, events, log>>

\* ---------------------------------------------------------------- the peer
\* The handlers of a batch never block, and a handler sees the peer only through
\* the reads and writes it makes on its own socket: what the peer does while a
\* batch is handled has the effect of the same step taken before the poll (if
\* the handler reads the socket) or after the batch (if it does not). The
\* peer's steps are therefore taken between batches.
Polling == pc = "loop"

PeerAccept ==
    \E t \in Tokens :
        /\ Polling
        /\ sock[t].st = "syn"
        /\ sock' = [sock EXCEPT ![t].st = "estab", ![t].edge = TRUE]
        /\ UNCHANGED <<reading, parsing, stats, clock, ctx, connections, reporter, registry, pc, events, outcome, log>>

PeerRefuse ==
    \E t \in Tokens :
        /\ Polling
        /\ sock[t].st = "syn"
        /\ sock' = [sock EXCEPT ![t] = [FreshSock EXCEPT !.st = "failed", !.req = sock[t].req, !.edge = TRUE]]
        /\ UNCHANGED <<reading, parsing, stats, clock, ctx, connections, reporter, registry, pc, events, outcome, log>>

PeerReset ==
    \E t \in Tokens :
        /\ Polling
        /\ sock[t].st = "estab" /\ Pending(sock[t]) = <<>>
        /\ sock' = [sock EXCEPT ![t] = [FreshSock EXCEPT !.st = "failed", !.req = sock[t].req, !.edge = TRUE]]
        /\ UNCHANGED <<reading, parsing, stats, clock, ctx, connections, reporter, registry, pc, events, outcome, log>>

\* The peer writes the next segment of its response; it picks the response,
\* among RS, with the first segment. A polite peer answers a request only.
PeerSend(RS, polite) ==
    \E t \in Tokens :
        /\ Polling
        /\ sock[t].st = "estab" /\ ~sock[t].fin
        /\ polite => sock[t].req
        /\ \/ /\ ~sock[t].started
              /\ \E r \in RS :
                    sock' = [sock EXCEPT ![t].started = TRUE, ![t].edge = TRUE,
                                         ![t].rx = @ \o Head(Responses[r]),
                                         ![t].todo = Tail(Responses[r])]
           \/ /\ sock[t].todo # <<>>
              /\ sock' = [sock EXCEPT ![t].edge = TRUE,
                                      ![t].rx = @ \o Head(sock[t].todo),
                                      ![t].todo = Tail(@)]
        /\ UNCHANGED <<reading, parsing, stats, clock, ctx, connections, reporter, registry, pc, events, outcome, log>>

\* The peer closes its side; a polite peer does so once its response is out.
PeerClose(polite) ==
    \E t \in Tokens :
        /\ Polling
        /\ sock[t].st = "estab" /\ ~sock[t].fin
        /\ polite => (sock[t].started /\ sock[t].todo = <<>>)
        /\ sock' = [sock EXCEPT ![t].fin = TRUE, ![t].edge = TRUE]
        /\ UNCHANGED <<reading, parsing, stats, clock, ctx, connections, reporter, registry, pc, events, outcome, log>>

\* ------------------------------------------------------ the specifications
NoFailure == {{}}
AnyFailure == {{}, {"deregister"}, {"shutdown"}, {"connect"}, {"register"}}

\* Any peer, any failure of a socket call, a finite time limit.
Next ==
    \/ Poll(TRUE)
    \/ Exit
    \/ Dispatch(AnyFailure, BOOLEAN)
    \/ NextIteration
    \/ TimelimitExceeded
    \/ PeerAccept
    \/ PeerRefuse
    \/ PeerReset
    \/ PeerSend({1, 2, 3}, FALSE)
    \/ PeerClose(FALSE)

Spec == Init /\ [][Next]_vars

\* One connection, any peer, every kind of first chunk.
InitSingle == \E max_requests \in 1..MaxRequests : InitWith(1, max_requests)

NextSingle ==
    \/ Poll(TRUE)
    \/ Exit
    \/ Dispatch(AnyFailure, BOOLEAN)
    \/ NextIteration
    \/ TimelimitExceeded
    \/ PeerAccept
    \/ PeerRefuse
    \/ PeerReset
    \/ PeerSend(1..5, FALSE)
    \/ PeerClose(FALSE)

SpecSingle == InitSingle /\ [][NextSingle]_vars

\* tests/read_http_response.rs, bench_connection: one connection against a
\* server that answers each request with the body "hello, world", written as
\* "hello, " and "world" (after the headers, or bare), and closes; no socket
\* call fails, and the time limit (five seconds in the test) may pass at any
\* time. The test asks for one request, Ctx::new(request, 1, 1); the harness
\* is taken for every max_requests up to the bound.
InitTest == \E max_requests \in 1..MaxRequests : InitWith(1, max_requests)

NextTest ==
    \/ Poll(TRUE)
    \/ Exit
    \/ Dispatch(NoFailure, BOOLEAN)
    \/ NextIteration
    \/ TimelimitExceeded
    \/ PeerAccept
    \/ PeerSend({6, 7}, TRUE)
    \/ PeerClose(TRUE)

SpecTest == InitTest /\ [][NextTest]_vars

\* concurrency = 2, max_requests = 4, no time limit, against a server that
\* answers every request with one short 200 and closes; no socket call fails.
InitE2E == InitWith(2, 4)

NextE2E ==
    \/ Poll(FALSE)
    \/ Exit
    \/ Dispatch(NoFailure, BOOLEAN)
    \/ NextIteration
    \/ PeerAccept
    \/ PeerSend({1}, TRUE)
    \/ PeerClose(TRUE)

SpecE2E == InitE2E /\ [][NextE2E]_vars


\* ------------------------------------------------------------- the claims
\* A step of the for loop: the handler of the batch's next event has run.
DispatchStep == pc = "events" /\ events # <<>> /\ events' = Tail(events)

\* A step in which ctx.poll(..) returns a batch.
PollStep == pc = "loop" /\ pc' = "events"

\* A step in which the loop of benchmark stops, for whatever reason.
StopStep == pc # "stopped" /\ pc' = "stopped"

\* C1: in every reachable state successful_responses + unsuccessful_responses
\* + failed_responses <= max_requests.
C1_TotalWithinMax ==
    ctx.successful_responses + ctx.unsuccessful_responses + ctx.failed_responses
        <= ctx.max_requests

\* C2: the Reporter's fatal branch is unreachable: no run ends with the panic
\* "Invalid state transition".
C2_NoInvalidTransition == outcome # "panic: Invalid state transition"

\* C3: the run stops exactly when the three counters sum to max_requests or
\* the deadline has elapsed: once they sum to max_requests no further event is
\* dispatched and no further poll is made, and while the sum is below
\* max_requests the loop stops for the deadline only.
C3_StopsExactly ==
    [][ /\ total_responses(ctx) >= ctx.max_requests => ~(DispatchStep \/ PollStep)
        /\ (StopStep /\ total_responses(ctx) < ctx.max_requests)
              => outcome' = "timelimit" ]_vars

\* C4: a request is written only on a Connected connection, on writable
\* readiness, while sent_requests < max_requests; so sent_requests never
\* exceeds max_requests.
C4_WriteStep ==
    /\ DispatchStep
    /\ Head(events).writable
    /\ ctx.sent_requests < ctx.max_requests
    /\ ctx'.sent_requests = ctx.sent_requests + 1
    /\ \/ /\ connections[Head(events).token].state = "CONNECTED"
          /\ Len(log') >= 1 /\ log'[1] = "READ"
       \/ /\ connections[Head(events).token].state = "CONNECTING"
          /\ Len(log') >= 2 /\ log'[1] = "CONNECTED" /\ log'[2] = "READ"

C4_SendsBounded ==
    /\ [](ctx.sent_requests <= ctx.max_requests)
    /\ [][ctx'.sent_requests # ctx.sent_requests => C4_WriteStep]_vars

\* C4's case: a Connected connection that may not send, the limit reached.
C4_Witness ==
    \E t \in Tokens :
        /\ connections[t].state = "CONNECTED"
        /\ sock[t].st = "estab"
        /\ ctx.sent_requests = ctx.max_requests
        /\ pc = "events" /\ events # <<>> /\ Head(events).token = t /\ Head(events).writable

\* The connection and the socket of the event being dispatched.
EventConn == connections[Head(events).token]
EventSock == sock[Head(events).token]

\* The handler of the event reads the first chunk of a new response.
FirstChunkStep ==
    /\ DispatchStep
    /\ Head(events).readable
    /\ ~EventConn.reading_response
    /\ EventSock.rx # <<>>

\* What the specification makes of the first chunk b of a response.
IsDigit(c) == c >= 48 /\ c <= 57
StatusOf(b) == (b[10] - 48) * 100 + (b[11] - 48) * 10 + (b[12] - 48)
ExpectedClass(b) ==
    IF Len(b) >= 12 /\ IsDigit(b[10]) /\ IsDigit(b[11]) /\ IsDigit(b[12])
    THEN IF StatusOf(b) >= 200 /\ StatusOf(b) < 300 THEN "successful" ELSE "unsuccessful"
    ELSE "failed"

Plus(k, class) == IF k = class THEN 1 ELSE 0

ParsePanics ==
    {"panic: range end index 12 out of range",
     "panic: attempt to subtract with overflow",
     "panic: byte index 8 is out of bounds"}

\* C5: the first chunk of a new response increments exactly one counter:
\* successful for a status in [200,300), unsuccessful for any other three-digit
\* status, failed for a malformed status or a chunk of fewer than 12 bytes; and
\* the classification never aborts the run.
C5_Classification ==
    [][FirstChunkStep =>
        /\ ctx'.successful_responses =
              ctx.successful_responses + Plus(ExpectedClass(EventSock.rx), "successful")
        /\ ctx'.unsuccessful_responses =
              ctx.unsuccessful_responses + Plus(ExpectedClass(EventSock.rx), "unsuccessful")
        /\ ctx'.failed_responses =
              ctx.failed_responses + Plus(ExpectedClass(EventSock.rx), "failed")
        /\ outcome' \notin ParsePanics]_vars

\* C6: in the test's run (one connection, one request, the server streaming
\* "hello, " then "world" and closing) the connection's bytes_received is 12
\* when the run ends.
C6_BytesReceived ==
    (pc = "stopped" /\ outcome = "ok" /\ ctx.max_requests = 1)
        => \A t \in Tokens : connections[t].bytes_received = Len(Hello) + Len(World)

\* The bytes of a sequence of segments.
RECURSIVE Flatten(_)
Flatten(segs) == IF segs = <<>> THEN <<>> ELSE Head(segs) \o Flatten(Tail(segs))

\* The value of the Server header among the bytes b, empty if there is none.
ServerOf(b) == IF parse_server(b).tag = "Some" THEN parse_server(b).v ELSE <<>>

\* A step that counts a response whose header parsed.
ParsedStep ==
    \/ ctx'.successful_responses # ctx.successful_responses
    \/ ctx'.unsuccessful_responses # ctx.unsuccessful_responses

\* C7 as stated: server_name becomes Some on the first response that parses,
\* to the value of that response's Server header (empty if it has none), and
\* never changes afterwards.
C7_ServerNameOfResponse ==
    [][ /\ ctx.server_name.some => ctx'.server_name = ctx.server_name
        /\ (~ctx.server_name.some /\ ParsedStep) =>
              /\ FirstChunkStep
              /\ ctx'.server_name = Some(ServerOf(EventSock.rx \o Flatten(EventSock.todo)))
        /\ (~ctx.server_name.some /\ ~ParsedStep) => ~ctx'.server_name.some ]_vars

\* C7 amended: server_name becomes Some on the first response whose first
\* chunk parses, to the value of the Server header found in that first chunk
\* (empty if the chunk has none), and never changes afterwards.
C7_ServerNameOfFirstChunk ==
    [][ /\ ctx.server_name.some => ctx'.server_name = ctx.server_name
        /\ (~ctx.server_name.some /\ ParsedStep) =>
              /\ FirstChunkStep
              /\ ctx'.server_name = Some(ServerOf(EventSock.rx))
        /\ (~ctx.server_name.some /\ ~ParsedStep) => ~ctx'.server_name.some ]_vars

\* C7's case: the first response had its Server header in a later chunk, the
\* name is empty, and a later response that carries a Server header in its
\* first chunk has been counted without changing it.
C7_Witness ==
    /\ ctx.server_name = Some(<<>>)
    /\ ctx.unsuccessful_responses >= 1
    /\ ctx.successful_responses >= 1

\* C8: after a run that classified the single response of the test, whose
\* body is "hello, world", the document length is 12.
C8_DocumentLength ==
    (pc = "stopped" /\ outcome = "ok" /\ ctx.max_requests = 1 /\ total_responses(ctx) = 1)
        => ctx.doclen = Some(Len(Hello) + Len(World))

\* The handler of the event reads the end of a response while Reading.
EndOfResponseStep ==
    /\ DispatchStep
    /\ Head(events).readable
    /\ read_from_stream(EventSock).done
    /\ \/ EventConn.state = "READ"
       \/ \E i \in DOMAIN log' : log'[i] = "READ"

\* C9: a connection in Reading that observes end-of-response passes through
\* Unconnected and re-enters Connecting within the same dispatch, on a fresh
\* socket registered under the same id, the other connections untouched.
C9_Reconnects ==
    [][EndOfResponseStep =>
        LET t == Head(events).token IN
        /\ connections'[t].token = t
        /\ connections'[t].state = "CONNECTING"
        /\ connections'[t].stream # connections[t].stream
        /\ sock'[t] = FreshSock
        /\ registry' = (registry \ {<<t, connections[t].stream>>})
                          \cup {<<t, connections'[t].stream>>}
        /\ Len(log') >= 2
        /\ log'[Len(log') - 1] = "UNCONNECTED" /\ log'[Len(log')] = "CONNECTING"
        /\ \A u \in Tokens \ {t} : connections'[u] = connections[u] /\ sock'[u] = sock[u]
    ]_vars

\* While the loop waits in poll, an event is ready or the server still has
\* something to do: a connection to accept, or a request to answer or to close.
C10_EventToCome ==
    \E t \in Tokens :
        \/ Ready(t)
        \/ sock[t].st = "syn"
        \/ sock[t].st = "estab" /\ sock[t].req /\ ~sock[t].fin

\* C10: with concurrency 2 and max_requests 4 against a server that answers
\* every request with one short 200 and closes, a run that has stopped has
\* returned Ok with 4 successful and no failed response and at least two
\* response times, so that the percentile table is printed; and until then the
\* loop never waits for an event that cannot come.
C10_EndToEnd ==
    /\ pc = "stopped" =>
          /\ outcome = "ok"
          /\ ctx.successful_responses = 4
          /\ ctx.failed_responses = 0
          /\ prints_percentiles(reporter)
    /\ (pc = "loop" /\ expect_more_responses(ctx)) => C10_EventToCome

\* C10's case: the run has stopped with no response time to spare.
C10_Witness ==
    /\ pc = "stopped"
    /\ ctx.successful_responses = 4
    /\ all_times(reporter) = 2

\* C11: a socket-level failure (a refused connect, a reset, a failing write,
\* a failing deregister, shutdown or connect during the reconnect) never makes
\* benchmark return an error.
C11_NeverFatal == outcome # "err"

\* ------------------------------------------------ the Reporter on its own
\* Connection::set_state called with any state on any connection of the pool,
\* in any order: every pair of (shadow state, new state) reaches
\* connection_state_changed. A panic ends the run. MaxSamples caps the samples
\* a connection collects.
MaxSamples == 2

ConnectionStates == {"UNCONNECTED", "CONNECTING", "CONNECTED", "READ"}

StateSet(t, w) ==
    /\ connections' = [connections EXCEPT ![t] = w.conn]
    /\ reporter' = w.rep
    /\ log' = w.log
    /\ IF Ok(w) THEN pc' = pc /\ outcome' = outcome
       ELSE pc' = "stopped" /\ outcome' = w.res
    /\ UNCHANGED <<reading, parsing, stats, clock, ctx, sock, registry, events>>

SetState ==
    \E t \in Tokens, new_state \in ConnectionStates :
        /\ pc = "loop"
        /\ reporter.connections[t].times < MaxSamples
        /\ reporter.connections[t].ctimes < MaxSamples
        /\ StateSet(t, set_state(HandlerArgs(t), new_state))

SpecReporter == Init /\ [][SetState]_vars

\* The transitions the specification accepts, as <<shadow state, new state>>.
AcceptedTransitions ==
    {<<"Connected", "READ">>, <<"Read", "UNCONNECTED">>,
     <<"Unconnected", "CONNECTING">>, <<"Connected", "CONNECTING">>,
     <<"Connecting", "CONNECTED">>}

\* C12: connection_state_changed accepts exactly the transitions
\* Connected->Reading, Reading->Unconnected, Unconnected->Connecting,
\* Connected->Connecting and Connecting->Connected; every other pair is fatal,
\* records no sample and changes no shadow state.
C12_AcceptsExactly ==
    \A t \in Tokens, new_state \in ConnectionStates :
        IF <<reporter.connections[t].state, new_state>> \in AcceptedTransitions
        THEN ~connection_state_changed(reporter, t, new_state).panic
        ELSE /\ connection_state_changed(reporter, t, new_state).panic
             /\ connection_state_changed(reporter, t, new_state).rep = reporter

\* ------------------------------------------------- benchmark() on the clock
\* The loop of benchmark with its time limit followed tick by tick: time
\* passes while poll waits and while a batch is handled; nothing else takes
\* time. MaxTimelimit bounds the time limits explored, in ticks.
MaxTimelimit == 2

\* if elapsed > timelimit
deadline_passed(c) == c.elapsed > c.timelimit

\* A time_left that is never recomputed.
stale_time_left(c) == c.time_left

\* time_left = timelimit - elapsed
new_time_left(c) == c.timelimit - c.elapsed

\* Time passes in ctx.poll(&mut events, Some(time_left)): no socket is ready
\* and the budget of the call is not used up.
PollWait ==
    /\ pc = "loop" /\ expect_more_responses(ctx)
    /\ \A t \in Tokens : ~Ready(t)
    /\ clock.elapsed - clock.polled < clock.time_left
    /\ clock' = [clock EXCEPT !.elapsed = @ + 1]
    /\ UNCHANGED <<ctx, connections, reporter, sock, registry, pc, events, outcome, log, stats, parsing, reading>>

\* The poll returns: with the ready sockets, or with nothing once its budget
\* is used up.
PollReturn == Poll(clock.elapsed - clock.polled >= clock.time_left)

\* Time passes while the batch is handled.
Tick ==
    /\ pc = "events"
    /\ clock.elapsed <= MaxTimelimit
    /\ clock' = [clock EXCEPT !.elapsed = @ + 1]
    /\ UNCHANGED <<ctx, connections, reporter, sock, registry, pc, events, outcome, log, stats, parsing, reading>>

\* let elapsed = Instant::now() - start; .. else { time_left = timelimit - elapsed; }
\* and the next poll is called.
TimeLeft ==
    /\ ~deadline_passed(clock)
    /\ pc = "events" /\ events = <<>>
    /\ pc' = "loop"
    /\ clock' = [clock EXCEPT !.time_left = new_time_left(clock), !.polled = clock.elapsed]
    /\ UNCHANGED <<ctx, connections, reporter, sock, registry, events, outcome, log, stats, parsing, reading>>

\* if elapsed > timelimit { eprintln!("Timelimit exceeded"); break; }
Deadline == deadline_passed(clock) /\ TimelimitExceeded

InitDeadline ==
    \E concurrency \in 1..MaxConcurrency, max_requests \in 1..MaxRequests,
       timelimit \in 0..MaxTimelimit :
        /\ concurrency <= max_requests
        /\ clock = ClockNew(timelimit)
        /\ stats = NoReport
        /\ parsing = NoParse
        /\ reading = NoRead
        /\ InitFrom(Pool(concurrency, max_requests))

\* A server that answers every request with one short 200 and closes; no
\* socket call fails.
NextDeadline ==
    \/ PollWait
    \/ PollReturn
    \/ Exit
    \/ Dispatch(NoFailure, BOOLEAN)
    \/ Tick
    \/ TimeLeft
    \/ Deadline
    \/ PeerAccept
    \/ PeerSend({1}, TRUE)
    \/ PeerClose(TRUE)

SpecDeadline == InitDeadline /\ [][NextDeadline]_vars

\* C13: the budget of every poll is the time limit minus the elapsed time, it
\* is never negative and no poll waits beyond the time limit; an iteration that
\* observes elapsed > timelimit stops the loop at once, with Ok and with the
\* counters as they are, whatever the connections are doing; and after the
\* stop nothing is polled or dispatched.
C13_Deadline ==
    /\ [](pc = "loop" =>
            /\ clock.time_left = clock.timelimit - clock.polled
            /\ clock.time_left >= 0
            /\ clock.elapsed <= clock.timelimit)
    /\ [][ /\ (pc = "events" /\ events = <<>> /\ clock.elapsed > clock.timelimit
                 /\ clock' = clock)
              => (pc' = "stopped" /\ outcome' = "timelimit" /\ ctx' = ctx)
           /\ (pc' = "stopped" /\ outcome' = "timelimit")
              => (clock.elapsed > clock.timelimit /\ ctx' = ctx)
           /\ pc = "stopped" => (pc' = "stopped" /\ ctx' = ctx /\ events' = events) ]_vars

\* C13's case: the deadline has stopped the run while a response was being
\* read and requests were still to be answered.
C13_Witness ==
    /\ pc = "stopped" /\ outcome = "timelimit"
    /\ clock.timelimit > 0
    /\ total_responses(ctx) < ctx.max_requests
    /\ \E t \in Tokens : connections[t].state = "READ" /\ connections[t].reading_response

\* -------------------------------------------------------- Reporter::print
\* The report on its own: print_connection_times and print_response_times on
\* a vector of samples in milliseconds, taken as the connect times and as the
\* response times alike. The variables of the run play no part. The small
\* vectors have up to MaxSampleCount samples of 1..MaxSample ms.
MaxSampleCount == 3
MaxSample == 3

SmallSamples == UNION {[1..n -> 1..MaxSample] : n \in 0..MaxSampleCount}

\* The vectors of the tests of reporting.rs.
TestSamples ==
    {<<3, 5, 7, 7>>, <<2, 4, 4, 4, 5, 5, 7, 9>>, <<1, 1, 1, 3, 24>>, <<4, 5, 6>>, <<5, 6>>}

\* Vectors around one hundred samples and more, in descending order.
LongCounts == {99, 100, 101, 199, 200, 250}
LongSamples == {[i \in 1..n |-> (n - i) \div 25 + 1] : n \in LongCounts}

\* The cut points of print_response_times.
Percentages == {50, 66, 75, 80, 90, 95, 98, 99}

\* sort_unstable: the same samples in ascending order.
CountBelow(s, x) == Cardinality({i \in DOMAIN s : s[i] < x})
CountUpTo(s, x) == Cardinality({i \in DOMAIN s : s[i] <= x})
sort_unstable(s) ==
    [k \in DOMAIN s |->
        CHOOSE x \in {s[i] : i \in DOMAIN s} : CountBelow(s, x) < k /\ k <= CountUpTo(s, x)]

\* An index that rounds the hundreds up.
percentile_index_rounded_up(len, percentage) == ((len + 99) \div 100) * percentage

\* let idx = all_times.len() / 100 * percentage, in usize
percentile_index(len, percentage) == (len \div 100) * percentage

\* all_times[idx].as_millis(); an index past the end panics.
percentile_row(sorted, idx) ==
    IF idx < Len(sorted)
    THEN [tag |-> "Ok", idx |-> idx, ms |-> sorted[idx + 1]]
    ELSE [tag |-> "Panic", idx |-> idx]

\* The table print_response_times prints from the sorted samples, if any.
percentile_table(sorted) ==
    IF Len(sorted) > 1
    THEN Some([rows |-> [p \in Percentages |->
                            percentile_row(sorted, percentile_index(Len(sorted), p))],
               longest |-> sorted[Len(sorted)]])
    ELSE None

print_response_times(times) == percentile_table(sort_unstable(times))

min(times) == times[1]

\* The sum of times[lo..hi], by halves.
RECURSIVE sum_range(_, _, _)
sum_range(times, lo, hi) ==
    IF lo > hi THEN 0
    ELSE IF lo = hi THEN times[lo]
    ELSE sum_range(times, lo, (lo + hi) \div 2) + sum_range(times, (lo + hi) \div 2 + 1, hi)

sum(times) == sum_range(times, 1, Len(times))

\* sum.as_millis() as f32 / times.len() as f32: the quotient, as a fraction.
mean(times) == [num |-> sum(times), den |-> Len(times)]

\* The sum of (t - mean)^2 with mean = m.num / m.den, times m.den^2.
RECURSIVE squares_range(_, _, _, _)
squares_range(times, m, lo, hi) ==
    IF lo > hi THEN 0
    ELSE IF lo = hi THEN (times[lo] * m.den - m.num) * (times[lo] * m.den - m.num)
    ELSE squares_range(times, m, lo, (lo + hi) \div 2)
         + squares_range(times, m, (lo + hi) \div 2 + 1, hi)

squares(times, m) == squares_range(times, m, 1, Len(times))

\* variance = sum of (t - mean)^2 / (times.len() - 1) as f32, as a fraction;
\* 0.0 / 0.0 is NaN, and so is its square root.
variance(times, m) ==
    [num |-> squares(times, m), den |-> m.den * m.den * (Len(times) - 1),
     nan |-> squares(times, m) = 0 /\ Len(times) - 1 = 0]

\* variance.sqrt(): kept as the variance it is the root of.
std_dev(times) == variance(times, mean(times))

\* A median that takes the lower middle.
median_lower(times) == times[(Len(times) - 1) \div 2 + 1]

median(times) == times[Len(times) \div 2 + 1]

max(times) == times[Len(times)]

\* The line print_connection_times prints from the sorted samples.
connection_times_line(ctimes) ==
    [min |-> min(ctimes), mean |-> mean(ctimes), std_dev |-> std_dev(ctimes),
     median |-> median(ctimes), max |-> max(ctimes)]

print_connection_times(ctimes) ==
    IF ctimes = <<>> THEN None ELSE Some(connection_times_line(sort_unstable(ctimes)))

\* Reporter::print: self.print_connection_times(); self.print_response_times();
PrintConnectionTimes ==
    /\ stats.phase = "print"
    /\ stats' = [stats EXCEPT !.connection_times = print_connection_times(stats.samples),
                              !.phase = "connection_times"]
    /\ UNCHANGED <<ctx, connections, reporter, sock, registry, pc, events, outcome, log, clock, parsing, reading>>

PrintResponseTimes ==
    /\ stats.phase = "connection_times"
    /\ stats' = [stats EXCEPT !.response_times = print_response_times(stats.samples),
                              !.phase = "printed"]
    /\ UNCHANGED <<ctx, connections, reporter, sock, registry, pc, events, outcome, log, clock, parsing, reading>>

InitReport ==
    \E samples \in SmallSamples \cup TestSamples \cup LongSamples :
        /\ stats = [NoReport EXCEPT !.samples = samples, !.phase = "print"]
        /\ parsing = NoParse
        /\ reading = NoRead
        /\ clock = ClockNew(0)
        /\ InitFrom(Pool(1, 1))

NextReport == PrintConnectionTimes \/ PrintResponseTimes

SpecReport == InitReport /\ [][NextReport]_vars

\* C14: the index of every cut point is floor(count * percentile / 100); for
\* the sorted samples [1, 2, 3] ms the index of the 50% row is 1 and the row
\* shows 2 ms.
C14_NearestRank ==
    stats.response_times.some =>
        /\ \A p \in Percentages :
              stats.response_times.v.rows[p].idx = (Len(stats.samples) * p) \div 100
        /\ stats.samples = <<1, 2, 3>> =>
              /\ stats.response_times.v.rows[50].idx = 1
              /\ stats.response_times.v.rows[50].ms = 2

\* C15: no percentile table is printed for fewer than two samples, and one
\* is printed for two or more; every row of a printed table reads an index
\* inside the sorted samples, and the 100% row is the largest sample.
C15_PercentileTable ==
    stats.phase = "printed" =>
        /\ stats.response_times.some <=> Len(stats.samples) >= 2
        /\ stats.response_times.some =>
              /\ \A p \in Percentages :
                    /\ stats.response_times.v.rows[p].tag = "Ok"
                    /\ stats.response_times.v.rows[p].idx < Len(stats.samples)
              /\ \E i \in DOMAIN stats.samples :
                    stats.samples[i] = stats.response_times.v.longest
              /\ \A i \in DOMAIN stats.samples :
                    stats.samples[i] <= stats.response_times.v.longest

\* A table of 250 samples has been printed, its 99% row read at index 198.
C15_Witness ==
    /\ stats.phase = "printed"
    /\ Len(stats.samples) = 250
    /\ stats.response_times.some
    /\ stats.response_times.v.rows[99] = [tag |-> "Ok", idx |-> 198, ms |-> 8]

\* The line of the connect times, as printed.
C16_Line == stats.connection_times.v

\* C16: of a non-empty vector of samples the summary shows the smallest
\* sample as min, the largest as max, the sample at index floor(n / 2) of
\* the sorted vector as median (the upper middle for even n), and the sum
\* over n as mean; mean([1, 2, 3]) = 2.0, mean([2, 3]) = 2.5,
\* mean([1, 1, 1, 3, 24]) = 6.0 and median([1, 2]) = 2.
C16_Summary ==
    stats.connection_times.some =>
        /\ \E i \in DOMAIN stats.samples : stats.samples[i] = C16_Line.min
        /\ \A i \in DOMAIN stats.samples : C16_Line.min <= stats.samples[i]
        /\ \E i \in DOMAIN stats.samples : stats.samples[i] = C16_Line.max
        /\ \A i \in DOMAIN stats.samples : stats.samples[i] <= C16_Line.max
        /\ \E i \in DOMAIN stats.samples : stats.samples[i] = C16_Line.median
        /\ CountBelow(stats.samples, C16_Line.median) <= Len(stats.samples) \div 2
        /\ CountUpTo(stats.samples, C16_Line.median) > Len(stats.samples) \div 2
        /\ C16_Line.mean.den = Len(stats.samples)
        /\ C16_Line.mean.num = sum(stats.samples)
        /\ stats.samples \in {<<1, 2, 3>>, <<3, 2, 1>>} => C16_Line.mean.num = 2 * C16_Line.mean.den
        /\ stats.samples \in {<<2, 3>>, <<3, 2>>} => 2 * C16_Line.mean.num = 5 * C16_Line.mean.den
        /\ stats.samples = <<1, 1, 1, 3, 24>> => C16_Line.mean.num = 6 * C16_Line.mean.den
        /\ stats.samples \in {<<1, 2>>, <<2, 1>>} => C16_Line.median = 2

\* The summary of [2, 1] has been printed: min 1, mean 3 / 2, median 2, max 2.
C16_Witness ==
    /\ stats.samples = <<2, 1>>
    /\ stats.connection_times.some
    /\ C16_Line.min = 1
    /\ C16_Line.mean = [num |-> 3, den |-> 2]
    /\ C16_Line.median = 2
    /\ C16_Line.max = 2

\* C17: the connect-time summary is printed whenever there is at least one
\* sample, and its standard deviation is the root of the sum of squared
\* deviations over n - 1 (11 / 3 under the root for [3, 5, 7, 7]); for every
\* printed summary n - 1 is not zero and the standard deviation is a number.
C17_StdDev ==
    /\ stats.phase # "print" => (stats.connection_times.some <=> Len(stats.samples) >= 1)
    /\ stats.connection_times.some =>
          /\ stats.connection_times.v.std_dev.den =
                Len(stats.samples) * Len(stats.samples) * (Len(stats.samples) - 1)
          /\ stats.samples = <<3, 5, 7, 7>> =>
                3 * stats.connection_times.v.std_dev.num = 11 * stats.connection_times.v.std_dev.den
          /\ Len(stats.samples) - 1 # 0
          /\ ~stats.connection_times.v.std_dev.nan

\* ------------------------------------------------- Response::parse alone
\* Response::parse on messages built as the tests of http.rs build them: a
\* status line and up to MaxHeaderLines header lines, each ended by CRLF.
MaxHeaderLines == 2

Crlf == <<13, 10>>
\* "HTTP/1.1 200 OK"
Line200 == SubSeq(HeadOk, 1, 15)
\* "HTTP/1.1 404 NF"
Line404 == SubSeq(Seg404, 1, 15)
\* "Server: gws"
LineGws == SubSeq(Seg200, 18, 28)
\* "Server: abc"
LineAbc == SubSeq(SegSrv, 1, 11)
\* "server: gws"
LineLower == <<115>> \o Tail(LineGws)
\* "X-Pad: 1234"
LinePad == SubSeq(SegBad, 18, 28)

StatusLines == {Line200, Line404}
HeaderLines == {LineGws, LineAbc, LineLower, LinePad, ServerPrefix}

RECURSIVE JoinCrlf(_)
JoinCrlf(lines) ==
    IF lines = <<>> THEN <<>> ELSE Head(lines) \o Crlf \o JoinCrlf(Tail(lines))

\* Response::parse(resp, status_only)
ParseResponse ==
    /\ parsing.resp # <<>>
    /\ ~parsing.result.some
    /\ parsing' = [parsing EXCEPT !.result =
                      Some(parse(parsing.resp, parsing.status_only, parsing.overflow_checked))]
    /\ UNCHANGED <<ctx, connections, reporter, sock, registry, pc, events, outcome, log, clock,
                   stats, reading>>

InitParse ==
    \E status_line \in StatusLines,
       lines \in UNION {[1..n -> HeaderLines] : n \in 0..MaxHeaderLines},
       status_only \in BOOLEAN, overflow_checked \in BOOLEAN :
        /\ parsing = [resp |-> JoinCrlf(<<status_line>> \o lines), lines |-> lines,
                      status_only |-> status_only, overflow_checked |-> overflow_checked,
                      result |-> None]
        /\ reading = NoRead
        /\ stats = NoReport
        /\ clock = ClockNew(0)
        /\ InitFrom(Pool(1, 1))

SpecParse == InitParse /\ [][ParseResponse]_vars

\* The header lines of the message that start with "Server:".
ServerLines == {i \in DOMAIN parsing.lines : StartsWith(parsing.lines[i], ServerPrefix)}
FirstServerLine == parsing.lines[CHOOSE i \in ServerLines : \A j \in ServerLines : i <= j]

\* C18: parse returns a result for every message of at least 12 bytes, a
\* header line that is exactly "Server:" included; the server is None with
\* status_only, None when no line starts with "Server:" (in that case), and
\* otherwise what follows "Server: " on the first such line: "gws" for
\* "Server: gws".
C18_ServerHeader ==
    parsing.result.some =>
        /\ parsing.result.v.tag = "Ok"
        /\ parsing.status_only => parsing.result.v.server = None
        /\ ~parsing.status_only /\ ServerLines = {} => parsing.result.v.server = None
        /\ ~parsing.status_only /\ ServerLines # {} =>
              /\ parsing.result.v.server.some
              /\ FirstServerLine = LineGws => parsing.result.v.server.v = <<103, 119, 115>>
              /\ FirstServerLine = LineAbc => parsing.result.v.server.v = <<97, 98, 99>>
              /\ FirstServerLine = ServerPrefix => parsing.result.v.server.v = <<>>

\* ------------------------------------------------------------- fair runs
\* No time limit, no failing socket call, and a server that accepts every
\* connection and answers every request with a response whose first write has
\* at least 12 bytes, then closes. The program is one thread that runs
\* whenever it can: poll returns when a socket is ready, and the handlers of a
\* batch run one after the other. The server does each of its steps in the
\* end: it accepts, it writes the segments of its response, it closes.
AtLeast12Bytes == {r \in DOMAIN Responses : Len(Head(Responses[r])) >= 12}

NextLive ==
    \/ Poll(FALSE)
    \/ Exit
    \/ Dispatch(NoFailure, BOOLEAN)
    \/ NextIteration
    \/ PeerAccept
    \/ PeerSend(AtLeast12Bytes, TRUE)
    \/ PeerClose(TRUE)

\* The handler of the next event of a batch can always run: this is
\* ENABLED <<Dispatch(NoFailure, BOOLEAN)>>_vars.
DispatchEnabled == pc = "events" /\ events # <<>>

\* Weak fairness of every step; that of Dispatch with ENABLED written out.
FairLive ==
    /\ WF_vars(Poll(FALSE) \/ Exit \/ NextIteration)
    /\ ([]<>~DispatchEnabled \/ []<><<DispatchStep>>_vars)
    /\ WF_vars(PeerAccept)
    /\ WF_vars(PeerSend(AtLeast12Bytes, TRUE))
    /\ WF_vars(PeerClose(TRUE))

SpecLive == Init /\ [][NextLive]_vars /\ FairLive

\* The loop has returned Ok with every response counted.
C19_Done ==
    /\ pc = "stopped" /\ outcome = "ok"
    /\ ctx.successful_responses + ctx.unsuccessful_responses + ctx.failed_responses
          = ctx.max_requests

\* Connection t is CONNECTED or READ while requests remain to be sent.
C19_Waiting(t) ==
    /\ t \in Tokens
    /\ connections[t].state \in {"CONNECTED", "READ"}
    /\ ctx.sent_requests < ctx.max_requests

\* C19: with no time limit, a server that accepts every connection and
\* answers every request with at least 12 bytes and a close, and fair
\* delivery of events, every run reaches successful + unsuccessful + failed =
\* max_requests and leaves the loop; and no connection is CONNECTED or READ
\* for ever while sent_requests < max_requests.
C19_Liveness ==
    /\ <>C19_Done
    /\ \A t \in 0..(MaxConcurrency - 1) : []<>~C19_Waiting(t)

\* The handler of a writable event runs on a connection that is CONNECTING.
C20_ConnectingWritable ==
    /\ DispatchStep
    /\ Head(events).writable
    /\ EventConn.state = "CONNECTING"

\* The handler has written nothing on the connection of its event.
C20_NoWrite ==
    /\ ctx'.sent_requests = ctx.sent_requests
    /\ connections'[Head(events).token].sent_requests = EventConn.sent_requests
    /\ connections'[Head(events).token].bytes_sent = EventConn.bytes_sent
    /\ sock'[Head(events).token].req = EventSock.req

\* The handler has written the payload on the connection of its event.
C20_Write ==
    /\ ctx'.sent_requests = ctx.sent_requests + 1
    /\ connections'[Head(events).token].sent_requests = EventConn.sent_requests + 1
    /\ connections'[Head(events).token].bytes_sent = EventConn.bytes_sent + Len(Payload)
    /\ Len(log') >= 2 /\ log'[1] = "CONNECTED" /\ log'[2] = "READ"

\* C20 as stated: the handler of a writable event on a Connecting connection
\* makes it Connected and writes nothing, sent_requests unchanged; a request
\* is written only by the handler of a writable event that finds the
\* connection Connected, with send_more().
C20_ConnectThenWait ==
    [][/\ C20_ConnectingWritable => (log'[1] = "CONNECTED" /\ C20_NoWrite)
       /\ ctx'.sent_requests # ctx.sent_requests =>
             /\ DispatchStep /\ Head(events).writable
             /\ EventConn.state = "CONNECTED"
             /\ send_more(ctx)
      ]_vars

\* C20, amended: the handler of a writable event on a Connecting connection
\* makes it Connected and, in the same call, writes the payload and moves it
\* on to Reading if send_more() holds (unless the write fails, which ends the
\* run) and writes nothing if not; a request is written only by such a
\* handler, never by one that finds the connection Connected already.
C20_ConnectAndSend ==
    [][/\ C20_ConnectingWritable =>
             /\ log'[1] = "CONNECTED"
             /\ IF send_more(ctx)
                THEN \/ C20_Write
                     \/ outcome' = "err" /\ C20_NoWrite /\ EventSock.st # "estab"
                ELSE C20_NoWrite /\ (Len(log') >= 2 => log'[2] # "READ")
       /\ ctx'.sent_requests # ctx.sent_requests =>
             /\ C20_ConnectingWritable
             /\ send_more(ctx)
             /\ C20_Write
      ]_vars

\* C20's case: the handler of one event has made a connection Connected and
\* then Reading, its request written.
C20_Witness ==
    /\ pc = "events"
    /\ Len(log) >= 2 /\ log[1] = "CONNECTED" /\ log[2] = "READ"
    /\ ctx.sent_requests = 1
    /\ \E t \in Tokens : connections[t].state = "READ" /\ sock[t].req

\* The handler of a readable event runs on a connection that is in READ, and
\* runs to its end: no call fails and nothing panics.
C21_ReadStep ==
    /\ DispatchStep
    /\ Head(events).readable
    /\ EventConn.state = "READ"
    /\ pc' = "events"

\* The connection of the event has ended its response and reconnected:
\* READ -> UNCONNECTED -> CONNECTING on a fresh socket.
C21_Reconnected ==
    /\ ~connections'[Head(events).token].reading_response
    /\ log' = <<"UNCONNECTED", "CONNECTING">>
    /\ connections'[Head(events).token].stream = EventConn.stream + 1

\* The connection of the event is still in READ on the same socket.
C21_StillOpen ==
    /\ log' = <<>>
    /\ connections'[Head(events).token].state = "READ"
    /\ connections'[Head(events).token].stream = EventConn.stream

\* C21: a readable event on a connection in READ drains the socket; when the
\* drain ends with 'would block' the response stays open, when it ends with
\* a read of 0 bytes the response is ended and the connection reconnects,
\* and when it ends with any other I/O error the response is ended and the
\* connection reconnects as well, instead of remaining in READ.
C21_DrainOutcome ==
    [][C21_ReadStep =>
          /\ (EventSock.st = "estab" /\ ~EventSock.fin) =>
                /\ C21_StillOpen
                /\ connections'[Head(events).token].reading_response
          /\ (EventSock.st = "estab" /\ EventSock.fin) => C21_Reconnected
          /\ EventSock.st = "failed" => C21_Reconnected
      ]_vars

\* successful + unsuccessful + failed
C22_Total(c) == c.successful_responses + c.unsuccessful_responses + c.failed_responses

\* The handler of the event reads a later chunk of a response.
C22_LaterChunkStep ==
    /\ DispatchStep
    /\ Head(events).readable
    /\ EventConn.reading_response
    /\ EventSock.rx # <<>>

\* Exactly one of the three counters has grown, by one.
C22_CountedOnce ==
    /\ C22_Total(ctx') = C22_Total(ctx) + 1
    /\ ctx'.successful_responses >= ctx.successful_responses
    /\ ctx'.unsuccessful_responses >= ctx.unsuccessful_responses
    /\ ctx'.failed_responses >= ctx.failed_responses

\* C22: a response is classified exactly once, on its first chunk: the
\* handler that reads the first bytes of a response increments exactly one
\* of the three counters, the flag reading_response is then set until the
\* peer's close is read, no handler that reads a later chunk counts
\* anything, and after every reconnect the flag is clear again; this for
\* every split of a response into readable events, data and close in the
\* same event included.
C22_ClassifiedOnce ==
    /\ [](\A t \in Tokens :
             connections[t].state \in {"UNCONNECTED", "CONNECTING"}
                => ~connections[t].reading_response)
    /\ [][/\ FirstChunkStep =>
                /\ C22_CountedOnce
                /\ connections'[Head(events).token].reading_response
                      = ~(EventSock.st = "estab" /\ EventSock.fin)
          /\ C22_LaterChunkStep => C22_Total(ctx') = C22_Total(ctx)
          /\ C22_Total(ctx') # C22_Total(ctx) => FirstChunkStep
         ]_vars

\* The handler of the event has replaced the socket of its connection.
C23_ReconnectStep ==
    /\ DispatchStep
    /\ connections'[Head(events).token].stream # EventConn.stream

\* C23: a reconnect deregisters the old socket before it shuts it down and
\* replaces it, and registers the new one under the same token: while the
\* loop runs, at every poll and between the handlers of a batch, the
\* registry holds for every token exactly the connection's current socket;
\* no socket that has been shut down or replaced is registered, in any
\* state; and the handler that replaces a socket leaves the old one
\* deregistered and, unless the register call fails, the new one registered.
C23_OneRegisteredSocket ==
    /\ [](pc # "stopped" =>
             registry = {<<t, connections[t].stream>> : t \in Tokens})
    /\ [](\A r \in registry :
             /\ r[1] \in Tokens
             /\ r[2] = connections[r[1]].stream
             /\ connections[r[1]].state # "UNCONNECTED")
    /\ [][C23_ReconnectStep =>
             /\ connections'[Head(events).token].stream = EventConn.stream + 1
             /\ <<Head(events).token, EventConn.stream>> \notin registry'
             /\ outcome' = outcome =>
                   <<Head(events).token, EventConn.stream + 1>> \in registry'
         ]_vars

\* C23's case: both connections have reconnected and the loop is about to
\* poll with their new sockets registered.
C23_Witness ==
    /\ pc = "loop"
    /\ Cardinality(Tokens) = 2
    /\ \A t \in Tokens : connections[t].stream >= 1
    /\ registry = {<<t, connections[t].stream>> : t \in Tokens}

\* ------------------------------------------------- read_from_stream alone
\* The loop of read_from_stream, one call of stream.read per step, on the
\* buffer of handle_connection_event. The socket holds avail bytes the peer
\* has delivered and the loop has not read; the peer may deliver more, up to
\* MaxDelivered bytes in all, and close, while the loop runs.
MaxDelivered == 6144

\* let mut buf = vec![0; 4096]
BufLen == 4096
\* buf.resize(buf.len() + 1024, 0)
BufGrowth == 1024

\* The sizes in which the peer delivers bytes and read returns them.
Chunks == {BufGrowth \div 2, BufGrowth, BufLen}

\* &mut buf[bytes_read..]
slice_len(r) == r.len - r.bytes_read

\* A buffer that is never resized.
resized_never(len, filled) == len

\* if bytes_read == buf.len() { buf.resize(buf.len() + 1024, 0) }
resized(len, filled) == IF filled = len THEN len + BufGrowth ELSE len

\* What one read can return of avail bytes into a slice: at least one byte, at
\* most what there is and what fits.
ReadSizes(r) ==
    {n \in Chunks \cup {r.avail, slice_len(r)} : n >= 1 /\ n <= r.avail /\ n <= slice_len(r)}

\* Ok(n) => { bytes_read += n; .. }
ReadBytes ==
    /\ reading.pc = "read"
    /\ \E n \in ReadSizes(reading) :
          reading' = [reading EXCEPT !.bytes_read = @ + n,
                                     !.len = resized(reading.len, reading.bytes_read + n),
                                     !.slice = slice_len(reading),
                                     !.avail = @ - n,
                                     !.last = "Ok(n)"]
    /\ UNCHANGED <<ctx, connections, reporter, sock, registry, pc, events, outcome, log, clock,
                   stats, parsing>>

\* Ok(0) => return (true, bytes_read): read returns 0 at the end of the stream,
\* and for an empty slice.
ReadZero ==
    /\ reading.pc = "read"
    /\ slice_len(reading) = 0 \/ (reading.avail = 0 /\ reading.closed)
    /\ reading' = [reading EXCEPT !.pc = "returned", !.done = TRUE,
                                  !.slice = slice_len(reading), !.last = "Ok(0)"]
    /\ UNCHANGED <<ctx, connections, reporter, sock, registry, pc, events, outcome, log, clock,
                   stats, parsing>>

\* Err(e) if e.kind() == ErrorKind::WouldBlock => return (false, bytes_read)
ReadWouldBlock ==
    /\ reading.pc = "read"
    /\ slice_len(reading) > 0 /\ reading.avail = 0 /\ ~reading.closed
    /\ reading' = [reading EXCEPT !.pc = "returned", !.done = FALSE,
                                  !.slice = slice_len(reading), !.last = "WouldBlock"]
    /\ UNCHANGED <<ctx, connections, reporter, sock, registry, pc, events, outcome, log, clock,
                   stats, parsing>>

\* Err(e) if e.kind() == ErrorKind::Interrupted => continue
ReadInterrupted ==
    /\ reading.pc = "read"
    /\ reading.last # "Interrupted"
    /\ reading' = [reading EXCEPT !.slice = slice_len(reading), !.last = "Interrupted"]
    /\ UNCHANGED <<ctx, connections, reporter, sock, registry, pc, events, outcome, log, clock,
                   stats, parsing>>

\* Err(_) => return (false, bytes_read)
ReadError ==
    /\ reading.pc = "read"
    /\ reading' = [reading EXCEPT !.pc = "returned", !.done = FALSE,
                                  !.slice = slice_len(reading), !.last = "Err"]
    /\ UNCHANGED <<ctx, connections, reporter, sock, registry, pc, events, outcome, log, clock,
                   stats, parsing>>

\* The peer delivers bytes, or closes, while the loop runs.
Deliver ==
    /\ reading.pc = "read" /\ ~reading.closed
    /\ \E n \in Chunks :
          /\ reading.bytes_read + reading.avail + n <= MaxDelivered
          /\ reading' = [reading EXCEPT !.avail = @ + n]
    /\ UNCHANGED <<ctx, connections, reporter, sock, registry, pc, events, outcome, log, clock,
                   stats, parsing>>

Close ==
    /\ reading.pc = "read" /\ ~reading.closed
    /\ reading' = [reading EXCEPT !.closed = TRUE]
    /\ UNCHANGED <<ctx, connections, reporter, sock, registry, pc, events, outcome, log, clock,
                   stats, parsing>>

\* let mut bytes_read = 0, on the handler's fresh buffer; the event is
\* readable, so there are bytes or the peer has closed.
InitRead ==
    \E avail \in Chunks \cup {0}, closed \in BOOLEAN :
        /\ avail > 0 \/ closed
        /\ reading = [NoRead EXCEPT !.pc = "read", !.len = BufLen, !.slice = BufLen,
                                    !.avail = avail, !.closed = closed]
        /\ parsing = NoParse
        /\ stats = NoReport
        /\ clock = ClockNew(0)
        /\ InitFrom(Pool(1, 1))

NextRead ==
    \/ ReadBytes
    \/ ReadZero
    \/ ReadWouldBlock
    \/ ReadInterrupted
    \/ ReadError
    \/ Deliver
    \/ Close

SpecRead == InitRead /\ [][NextRead]_vars

\* C24: during the drain of one readable event the buffer never shrinks and
\* grows only by 1024 bytes, when the bytes read so far fill it;
\* bytes_read <= buf.len() always; every read call is given a non-empty
\* slice; and the drain reports the end of the response only when the peer
\* has closed and everything has been read, never because the buffer was
\* full.
C24_Buffer ==
    /\ [](reading.pc # "idle" =>
             /\ reading.bytes_read <= reading.len
             /\ reading.slice > 0
             /\ reading.pc = "read" => slice_len(reading) > 0
             /\ reading.done => (reading.closed /\ reading.avail = 0))
    /\ [][/\ reading'.len >= reading.len
          /\ reading'.len # reading.len =>
                /\ reading'.len = reading.len + 1024
                /\ reading'.bytes_read = reading.len
          /\ reading'.bytes_read = reading.len => reading'.len = reading.len + 1024
         ]_vars

\* C24's case: the buffer has been filled and has grown twice, and the drain
\* has ended with the peer's close.
C24_Witness ==
    /\ reading.pc = "returned"
    /\ reading.done
    /\ reading.bytes_read = 5120
    /\ reading.len = 6144

\* The tag of the Reporter's State for a ConnectionState.
C25_Tag(state) ==
    CASE state = "UNCONNECTED" -> "Unconnected"
      [] state = "CONNECTING" -> "Connecting"
      [] state = "CONNECTED" -> "Connected"
      [] state = "READ" -> "Read"

\* C25: after every set_state call that returns, the Reporter's shadow state
\* of the connection has the tag of the Connection's own state: unless the
\* run has ended in the Reporter's panic, every connection of the pool has a
\* shadow state, and it is the one of its state, whatever the connections
\* have gone through (new, the writable transition, write_request, reset).
C25_InStep ==
    outcome # "panic: Invalid state transition" =>
        \A t \in Tokens :
            /\ t \in DOMAIN reporter.connections
            /\ reporter.connections[t].state = C25_Tag(connections[t].state)

\* C25's case: a connection that has reconnected is in READ again, and so is
\* its shadow state.
C25_Witness ==
    \E t \in Tokens :
        /\ connections[t].stream >= 1
        /\ connections[t].state = "READ"
        /\ reporter.connections[t].state = "Read"
        /\ reporter.done >= 1

\* C26: a connection that completes a response phase (READ -> UNCONNECTED)
\* has had that response counted: in every state the Reporter's done is at
\* most successful + unsuccessful + failed, also when the peer closes
\* without sending a byte after the request was written.
C26_DoneCounted == reporter.done <= C22_Total(ctx)

\* Any failure of a socket call, a finite time limit, and a peer that may
\* refuse, reset and close as it likes but writes on a socket only after the
\* request has been written to it.
NextAnswering ==
    \/ Poll(TRUE)
    \/ Exit
    \/ Dispatch(AnyFailure, BOOLEAN)
    \/ NextIteration
    \/ TimelimitExceeded
    \/ PeerAccept
    \/ PeerRefuse
    \/ PeerReset
    \/ PeerSend({1, 2, 3}, TRUE)
    \/ PeerClose(FALSE)

SpecAnswering == Init /\ [][NextAnswering]_vars

\* C27: against a peer that sends bytes on a socket only after a request was
\* written to it, every classified response answers a written request of its
\* own: successful + unsuccessful + failed <= sent_requests in every state,
\* and at most one request is written on a socket between two reconnects.
C27_ResponsePerRequest ==
    /\ [](C22_Total(ctx) <= ctx.sent_requests)
    /\ [][\A t \in Tokens :
             (connections'[t].sent_requests # connections[t].sent_requests) =>
                 /\ connections'[t].sent_requests = connections[t].sent_requests + 1
                 /\ ~sock[t].req
         ]_vars

\* C27's case: every request has been written and answered, one of them with
\* a response read in two chunks or one.
C27_Witness ==
    /\ ctx.sent_requests = 2
    /\ C22_Total(ctx) = 2
    /\ ctx.unsuccessful_responses >= 1
    /\ \E t \in Tokens : connections[t].bytes_received >= Len(Seg404) + Len(SegSrv)

\* The Reporter's samples of token t.
C28_Stats(rep, t) == rep.connections[t]

\* C28: the samples follow the lifecycle: for every connection the number of
\* connect times minus the number of response times is 0 or 1 in every
\* state; one connect time is pushed per Connecting -> Connected and one
\* response time per Read -> Unconnected, and none otherwise; and done is the
\* number of response times of all the connections.
C28_Samples ==
    /\ [](\A t \in DOMAIN reporter.connections :
             C28_Stats(reporter, t).ctimes - C28_Stats(reporter, t).times \in {0, 1})
    /\ [](reporter.done = all_times(reporter))
    /\ [][\A t \in DOMAIN reporter.connections :
             /\ C28_Stats(reporter', t).ctimes - C28_Stats(reporter, t).ctimes \in {0, 1}
             /\ C28_Stats(reporter', t).times - C28_Stats(reporter, t).times \in {0, 1}
             /\ C28_Stats(reporter', t).ctimes # C28_Stats(reporter, t).ctimes
                   <=> (C28_Stats(reporter, t).state = "Connecting" /\ "CONNECTED" \in {log'[i] : i \in DOMAIN log'}
                        /\ pc = "events" /\ events # <<>> /\ Head(events).token = t)
             /\ C28_Stats(reporter', t).times # C28_Stats(reporter, t).times
                   <=> ("UNCONNECTED" \in {log'[i] : i \in DOMAIN log'}
                        /\ pc = "events" /\ events # <<>> /\ Head(events).token = t
                        /\ outcome' # "panic: Invalid state transition")
         ]_vars

\* C28's case: two responses are done; one connection has connected twice
\* and completed one response.
C28_Witness ==
    /\ reporter.done = 2
    /\ \E t \in DOMAIN reporter.connections :
          /\ C28_Stats(reporter, t).ctimes = 2
          /\ C28_Stats(reporter, t).times = 1

=============================================================================
